---------------------------- MODULE Spec2Model ----------------------------
(***************************************************************************)
(* SerialHWinfo 0.1: a console program that reads text lines from a serial *)
(* port and mirrors the latest distinct numeric reading into the registry. *)
(*                                                                         *)
(* A std::string is a sequence of byte values, a std::wstring a sequence   *)
(* of UTF-16 code units.  An offset into a string (pos, idx, start, end)   *)
(* is 0-based as in the source; s[k] of the source is At(s, k).            *)
(***************************************************************************)
EXTENDS Integers, Sequences, FiniteSets, TLC

(***************************************************************************)
(* Byte values of the characters the model names.                          *)
(***************************************************************************)
Ch == [ tab |-> 9, nl |-> 10, vt |-> 11, ff |-> 12, cr |-> 13, sp |-> 32,
        lparen |-> 40, rparen |-> 41, plus |-> 43, minus |-> 45, dot |-> 46,
        d0 |-> 48, d1 |-> 49, d2 |-> 50, d9 |-> 57,
        A |-> 65, F |-> 70, Z |-> 90, underscore |-> 95,
        a |-> 97, e |-> 101, f |-> 102, i |-> 105, n |-> 110, p |-> 112,
        t |-> 116, x |-> 120, y |-> 121, z |-> 122 ]

\* s[k] for a 0-based k; the terminating NUL of c_str() at and past the end.
At(s, k) == IF k >= 0 /\ k < Len(s) THEN s[k + 1] ELSE 0

\* s.substr(from, count)
Substr(s, from, count) == [k \in 1..count |-> s[from + k]]

\* isspace in the "C" locale (the program never calls setlocale).
isspace(c) == c \in {Ch.tab, Ch.nl, Ch.vt, Ch.ff, Ch.cr, Ch.sp}

IsDigit(c) == c \in Ch.d0 .. Ch.d9

ToLower(c) == IF c \in Ch.A .. Ch.Z THEN c + 32 ELSE c

IsHexDigit(c) == IsDigit(c) \/ ToLower(c) \in Ch.a .. Ch.f

IsNChar(c) == IsDigit(c) \/ ToLower(c) \in Ch.a .. Ch.z \/ c = Ch.underscore

(***************************************************************************)
(* trim_ascii                                                              *)
(***************************************************************************)
RECURSIVE TrimStart(_, _)
\* while (start < s.size() && isspace(s[start])) ++start;
TrimStart(s, start) ==
    IF start < Len(s) /\ isspace(At(s, start)) THEN TrimStart(s, start + 1)
    ELSE start

RECURSIVE TrimEnd(_, _, _)
\* while (end > start && isspace(s[end])) --end;
TrimEnd(s, start, end) ==
    IF end > start /\ isspace(At(s, end)) THEN TrimEnd(s, start, end - 1)
    ELSE end

\* A trim_ascii that forgets the trailing white space.
trim_ascii_leading(s) ==
    LET start == TrimStart(s, 0)
    IN  IF start = Len(s) THEN << >>
        ELSE Substr(s, start, Len(s) - start)

trim_ascii(s) ==
    LET start == TrimStart(s, 0)
    IN  IF start = Len(s) THEN << >>
        ELSE LET end == TrimEnd(s, start, Len(s) - 1)
             IN  Substr(s, start, end - start + 1)

(***************************************************************************)
(* utf8_to_wstring.  A byte below 128 is one code unit of the same value;  *)
(* MultiByteToWideChar(CP_UTF8, 0, ...) turns a byte that is not part of a *)
(* valid UTF-8 sequence into U+FFFD, so "needed" is never 0 for a          *)
(* non-empty input.  The inputs of this model are 7-bit (the program's     *)
(* transport carries ASCII text), so no multi-byte sequence is decoded.    *)
(***************************************************************************)
utf8_to_wstring(in) ==
    IF in = << >> THEN << >>
    ELSE [k \in 1..Len(in) |-> IF in[k] < 128 THEN in[k] ELSE 65533]

(***************************************************************************)
(* std::stod(trimmed, &idx): strtod on trimmed.c_str(), then               *)
(*   no conversion            -> throws std::invalid_argument              *)
(*   errno == ERANGE          -> throws std::out_of_range                  *)
(*   otherwise                -> idx = number of characters consumed       *)
(* strtod skips leading white space, takes an optional sign and then the   *)
(* longest of: a decimal literal, a hexadecimal literal (0x...), INF or    *)
(* INFINITY, NAN or NAN(n-char-sequence), letters in either case.          *)
(***************************************************************************)
DigitSet == Ch.d0 .. Ch.d9

HexDigitSet == {c \in 0..127 : IsHexDigit(c)}

NCharSet == {c \in 0..127 : IsNChar(c)}

SpaceSet == {c \in 0..127 : isspace(c)}

RECURSIVE Scan(_, _, _)
\* The first offset at or after k whose character is not in class.
Scan(class, s, k) ==
    IF k < Len(s) /\ At(s, k) \in class THEN Scan(class, s, k + 1) ELSE k

\* Whether word (lower case) stands at offset k of s, in either case.
MatchesAt(s, k, word) ==
    /\ k + Len(word) <= Len(s)
    /\ \A j \in 1..Len(word) : ToLower(At(s, k + j - 1)) = word[j]

KwInf == <<Ch.i, Ch.n, Ch.f>>

KwInfinity == <<Ch.i, Ch.n, Ch.f, Ch.i, Ch.n, Ch.i, Ch.t, Ch.y>>

KwNan == <<Ch.n, Ch.a, Ch.n>>

DigitVal(c) == IF IsDigit(c) THEN c - Ch.d0 ELSE ToLower(c) - Ch.a + 10

RECURSIVE StripZeros(_)
StripZeros(ds) ==
    IF ds # << >> /\ Head(ds) = Ch.d0 THEN StripZeros(Tail(ds)) ELSE ds

RECURSIVE DecValue(_, _)
\* The value of a digit string, saturating (an exponent past any range).
DecValue(ds, acc) ==
    IF ds = << >> THEN acc
    ELSE IF acc > 99999 THEN acc
    ELSE DecValue(Tail(ds), 10 * acc + DigitVal(Head(ds)))

RECURSIVE DigitsGreater(_, _)
\* a > b for two digit strings read as fractions 0.a and 0.b
DigitsGreater(a, b) ==
    IF a = << >> THEN FALSE
    ELSE IF b = << >> THEN StripZeros(a) # << >>
    ELSE IF Head(a) # Head(b) THEN Head(a) > Head(b)
    ELSE DigitsGreater(Tail(a), Tail(b))

\* The digits of the largest decimal that still rounds to DBL_MAX
\* (1.7976931348623158e308), and of the largest that rounds to zero
\* (2.4703282292062327e-324, half the smallest subnormal), to 17 places.
DblMaxDigits == <<49, 55, 57, 55, 54, 57, 51, 49, 51, 52, 56, 54, 50, 51, 49, 53, 56>>

DblZeroDigits == <<50, 52, 55, 48, 51, 50, 56, 50, 50, 57, 50, 48, 54, 50, 51, 50, 55>>

\* ERANGE for the decimal 0.sig * 10^order (sig without leading zeros):
\* the result overflows to HUGE_VAL or underflows to zero.
DecimalOutOfRange(sig, order) ==
    /\ sig # << >>
    /\ \/ order > 309
       \/ order = 309 /\ DigitsGreater(sig, DblMaxDigits)
       \/ order < -323
       \/ order = -323 /\ ~DigitsGreater(sig, DblZeroDigits)

\* ERANGE for the hexadecimal integer sig (without leading zeros) times
\* 2^exp2: a value of 2^1024 or more, or of 2^-1075 or less.
HexOutOfRange(sig, exp2) ==
    /\ sig # << >>
    /\ LET lead == DigitVal(Head(sig))
           bits == IF lead >= 8 THEN 4 ELSE IF lead >= 4 THEN 3
                   ELSE IF lead >= 2 THEN 2 ELSE 1
           order == 4 * (Len(sig) - 1) + bits + exp2
           pow2 == lead \in {1, 2, 4, 8} /\ StripZeros(Tail(sig)) = << >>
       IN  \/ order > 1024
           \/ order < -1074
           \/ order = -1074 /\ pow2

\* An exponent part at offset k: the marker, an optional sign, digits.  The
\* part is taken only when at least one digit follows.
ExponentAt(s, k, marker) ==
    LET signed == At(s, k + 1) \in {Ch.plus, Ch.minus}
        from == IF signed THEN k + 2 ELSE k + 1
        to == Scan(DigitSet, s, from)
        present == ToLower(At(s, k)) = marker /\ to > from
        mag == DecValue(Substr(s, from, to - from), 0)
    IN  [ end |-> IF present THEN to ELSE k,
          value |-> IF ~present THEN 0
                    ELSE IF At(s, k + 1) = Ch.minus THEN 0 - mag ELSE mag ]

\* A mantissa at offset k over the digit class: digits, optionally a point
\* and more digits; at least one digit in all.
MantissaAt(class, s, k) ==
    LET i1 == Scan(class, s, k)
        point == At(s, i1) = Ch.dot
        i2 == IF point THEN Scan(class, s, i1 + 1) ELSE i1
        frac == IF point THEN Substr(s, i1 + 1, i2 - i1 - 1) ELSE << >>
    IN  [ ok |-> (i1 - k) + Len(frac) > 0,
          end |-> i2,
          digits |-> Substr(s, k, i1 - k) \o frac,
          fraclen |-> Len(frac) ]

stod(str) ==
    LET p0 == Scan(SpaceSet, str, 0)
        p == IF At(str, p0) \in {Ch.plus, Ch.minus} THEN p0 + 1 ELSE p0
        none == [err |-> "none", idx |-> 0]
        hexm == MantissaAt(HexDigitSet, str, p + 2)
        decm == MantissaAt(DigitSet, str, p)
    IN  IF MatchesAt(str, p, KwInfinity) THEN [none EXCEPT !.idx = p + 8]
        ELSE IF MatchesAt(str, p, KwInf) THEN [none EXCEPT !.idx = p + 3]
        ELSE IF MatchesAt(str, p, KwNan) THEN
            LET q == Scan(NCharSet, str, p + 4)
            IN  IF At(str, p + 3) = Ch.lparen /\ At(str, q) = Ch.rparen
                THEN [none EXCEPT !.idx = q + 1]
                ELSE [none EXCEPT !.idx = p + 3]
        ELSE IF At(str, p) = Ch.d0 /\ ToLower(At(str, p + 1)) = Ch.x /\ hexm.ok THEN
            LET ex == ExponentAt(str, hexm.end, Ch.p)
                sig == StripZeros(hexm.digits)
            IN  IF HexOutOfRange(sig, ex.value - 4 * hexm.fraclen)
                THEN [err |-> "out_of_range", idx |-> 0]
                ELSE [none EXCEPT !.idx = ex.end]
        ELSE IF decm.ok THEN
            LET ex == ExponentAt(str, decm.end, Ch.e)
                sig == StripZeros(decm.digits)
            IN  IF DecimalOutOfRange(sig, Len(sig) + ex.value - decm.fraclen)
                THEN [err |-> "out_of_range", idx |-> 0]
                ELSE [none EXCEPT !.idx = ex.end]
        ELSE [err |-> "invalid_argument", idx |-> 0]

(***************************************************************************)
(* Bounds of the model.  The device sends 7-bit text drawn from one of a   *)
(* few small character sets, each with a bound on the bytes sent in all;   *)
(* MaxRx bounds the bytes the serial driver holds between two reads, the   *)
(* largest chunk one ReadFile returns (tempBuf itself holds 256).          *)
(***************************************************************************)
MaxRx == 4

MaxReadings == 9

MaxSpacing == 4

MaxDecimal == 5

MaxSigned == 4

MaxExponent == 4

MaxHex == 4

MaxWords == 4

MaxLive == 4

MaxNoise == 6

TempBufSize == 256

npos == -1

\* Short lines over varied characters: white space, fractions, signs,
\* exponents, hexadecimal digits, the words strtod knows.
Profiles ==
    { [chars |-> {Ch.d1, Ch.sp, Ch.cr, Ch.nl}, max |-> MaxSpacing],
      [chars |-> {Ch.d1, Ch.dot, Ch.nl}, max |-> MaxDecimal],
      [chars |-> {Ch.d1, Ch.minus, Ch.nl}, max |-> MaxSigned],
      [chars |-> {Ch.d9, Ch.e, Ch.nl}, max |-> MaxExponent],
      [chars |-> {Ch.d0, Ch.x, Ch.nl}, max |-> MaxHex],
      [chars |-> {Ch.n, Ch.a, Ch.nl}, max |-> MaxWords],
      [chars |-> {Ch.i, Ch.n, Ch.f, Ch.nl}, max |-> MaxWords] }

\* Many lines over two characters: the readings 1, 11, 111, ...
ReadingProfiles == { [chars |-> {Ch.d1, Ch.nl}, max |-> MaxReadings] }

LiveProfiles == { [chars |-> {Ch.d1, Ch.d2, Ch.nl}, max |-> MaxLive] }

\* Readings with lines in between that are empty or no numbers: 1, -, -1
NoiseProfiles == { [chars |-> {Ch.d1, Ch.minus, Ch.nl}, max |-> MaxNoise] }

\* L"Temperature"
sensorName == <<84, 101, 109, 112, 101, 114, 97, 116, 117, 114, 101>>

\* The dwCtrlType values of a console control event.
CTRL_C_EVENT == 0

CTRL_BREAK_EVENT == 1

CTRL_CLOSE_EVENT == 2

CTRL_LOGOFF_EVENT == 5

CTRL_SHUTDOWN_EVENT == 6

CtrlTypes == {CTRL_C_EVENT, CTRL_BREAK_EVENT, CTRL_CLOSE_EVENT,
              CTRL_LOGOFF_EVENT, CTRL_SHUTDOWN_EVENT}

(***************************************************************************)
(* State.                                                                  *)
(*   pc                the statement wmain executes next                   *)
(*   g_running         the atomic run flag                                 *)
(*   hSerial, hKey     the two handles: "none" before the call that sets   *)
(*                     them, "invalid" (INVALID_HANDLE_VALUE / NULL after  *)
(*                     a failed call), "open", "closed"                    *)
(*   exitCode          << >> while running, <<n>> once wmain returned n    *)
(*   readBuffer, lastValueWritten    the locals of those names             *)
(*   regName, regValue the registry values "Name" and "Value" of the key:  *)
(*                     << >> when absent, <<text>> when present            *)
(*   rx                bytes the serial driver received and ReadFile has   *)
(*                     not returned yet                                    *)
(* History, written and never read by the program:                         *)
(*   stream            every byte ReadFile returned, in order              *)
(*   carried           inside the inner loop: the bytes appended last      *)
(*                     joined a partial line that is still in readBuffer   *)
(*   outcomes          one record per line taken out of readBuffer         *)
(*   lineSplit         inside the inner loop: the line taken out last      *)
(*                     arrived in more than one chunk                      *)
(*   writes            the text of every RegSetValueExW "Value" call       *)
(*   ignoredLog        every "Ignored non-numeric line" report             *)
(*   valueWriteFailed  some RegSetValueExW "Value" call failed             *)
(*   nameWrites        the RegSetValueExW "Name" calls                     *)
(*   serialCloses, keyCloses   the CloseHandle / RegCloseKey calls         *)
(*   readIssued        ReadFile was called                                 *)
(*   commFailed        the call that configures the port and failed:       *)
(*                     its name, "none" while none has failed              *)
(***************************************************************************)
VARIABLES pc, g_running, hSerial, hKey, exitCode, readBuffer,
          lastValueWritten, regName, regValue, rx, stream, carried,
          outcomes, lineSplit, writes, ignoredLog, valueWriteFailed,
          nameWrites, serialCloses, keyCloses, readIssued, commFailed

vars == <<pc, g_running, hSerial, hKey, exitCode, readBuffer,
          lastValueWritten, regName, regValue, rx, stream, carried,
          outcomes, lineSplit, writes, ignoredLog, valueWriteFailed,
          nameWrites, serialCloses, keyCloses, readIssued, commFailed>>

handles == <<hSerial, hKey, serialCloses, keyCloses>>

calls == <<readIssued, commFailed>>

registry == <<regName, regValue, writes, valueWriteFailed, nameWrites>>

pipeline == <<readBuffer, lastValueWritten, stream, carried, outcomes,
              lineSplit, ignoredLog>>

Init ==
    /\ pc = "SetConsoleCtrlHandler"
    /\ g_running = TRUE
    /\ hSerial = "none"
    /\ hKey = "none"
    /\ exitCode = << >>
    /\ readBuffer = << >>
    /\ lastValueWritten = << >>
    /\ regName = << >>
    /\ regValue = << >>
    /\ rx = << >>
    /\ stream = << >>
    /\ carried = FALSE
    /\ outcomes = << >>
    /\ lineSplit = FALSE
    /\ writes = << >>
    /\ ignoredLog = << >>
    /\ valueWriteFailed = FALSE
    /\ nameWrites = 0
    /\ serialCloses = 0
    /\ keyCloses = 0
    /\ readIssued = FALSE
    /\ commFailed = "none"

(***************************************************************************)
(* ConsoleHandler, called by the system on a thread of its own once the    *)
(* handler is registered and until wmain returns.                          *)
(***************************************************************************)
HandledCtrlTypes ==
    {CTRL_C_EVENT, CTRL_CLOSE_EVENT, CTRL_LOGOFF_EVENT, CTRL_SHUTDOWN_EVENT}

\* What one call leaves in g_running.
ConsoleHandlerStore(dwCtrlType, flag) ==
    IF dwCtrlType \in HandledCtrlTypes THEN FALSE ELSE flag

ConsoleHandler ==
    /\ pc \notin {"SetConsoleCtrlHandler", "done"}
    /\ g_running' \in {ConsoleHandlerStore(t, g_running) : t \in CtrlTypes}
    /\ UNCHANGED <<pc, exitCode, rx, calls, handles, registry, pipeline>>

(***************************************************************************)
(* The device: one more byte reaches the serial driver.  A byte that       *)
(* arrives between two reads is returned by the next read exactly as one   *)
(* that arrives while that read waits, so arrivals are taken only while a  *)
(* read is in flight: every way of cutting the text into chunks of at most *)
(* MaxRx bytes, empty ones included, still occurs.                         *)
(***************************************************************************)
Sent == stream \o rx

DeviceSends(profiles) ==
    /\ pc = "ReadFile"
    /\ Len(rx) < MaxRx
    /\ \E prof \in profiles :
          /\ Len(Sent) < prof.max
          /\ \A k \in 1..Len(Sent) : Sent[k] \in prof.chars
          /\ \E b \in prof.chars : rx' = Append(rx, b)
    /\ UNCHANGED <<pc, g_running, exitCode, calls, handles, registry,
                   pipeline>>

(***************************************************************************)
(* wmain, STARTING                                                         *)
(***************************************************************************)
Return(code) ==
    /\ pc' = "done"
    /\ exitCode' = <<code>>

SetConsoleCtrlHandler ==
    /\ pc = "SetConsoleCtrlHandler"
    /\ pc' = "CreateFileW"
    /\ UNCHANGED <<g_running, exitCode, rx, calls, handles, registry,
                   pipeline>>

\* The test against NULL in place of INVALID_HANDLE_VALUE.
IsNullHandle(h) == h = "none"

\* if (hSerial == INVALID_HANDLE_VALUE)
IsInvalidHandle(h) == h = "invalid"

CreateFileW ==
    /\ pc = "CreateFileW"
    /\ \E h \in {"open", "invalid"} :
          /\ hSerial' = h
          /\ IF IsInvalidHandle(h)
             THEN Return(1)
             ELSE pc' = "GetCommState" /\ UNCHANGED exitCode
    /\ UNCHANGED <<g_running, rx, calls, hKey, serialCloses, keyCloses,
                   registry, pipeline>>

\* A failure path that returns without the CloseHandle.
CommStateStepLeaking(here, next) ==
    /\ pc = here
    /\ \E ok \in BOOLEAN :
          IF ok
          THEN /\ pc' = next
               /\ UNCHANGED <<exitCode, commFailed>>
          ELSE /\ commFailed' = here
               /\ Return(1)
    /\ UNCHANGED <<g_running, rx, readIssued, handles, registry, pipeline>>

\* if (!XxxCommState(hSerial, &dcb)) { CloseHandle(hSerial); return 1; }
CommStateStep(here, next) ==
    /\ pc = here
    /\ \E ok \in BOOLEAN :
          IF ok
          THEN /\ pc' = next
               /\ UNCHANGED <<exitCode, hSerial, serialCloses, commFailed>>
          ELSE /\ commFailed' = here
               /\ hSerial' = "closed"
               /\ serialCloses' = serialCloses + 1
               /\ Return(1)
    /\ UNCHANGED <<g_running, rx, readIssued, hKey, keyCloses, registry,
                   pipeline>>

GetCommState == CommStateStep("GetCommState", "SetCommState")

SetCommState == CommStateStep("SetCommState", "SetCommTimeouts")

\* The result of SetCommTimeouts is not looked at.
SetCommTimeouts ==
    /\ pc = "SetCommTimeouts"
    /\ \E ok \in BOOLEAN :
          commFailed' = IF ok THEN commFailed ELSE "SetCommTimeouts"
    /\ pc' = "RegCreateKeyExW"
    /\ UNCHANGED <<g_running, exitCode, rx, readIssued, handles, registry,
                   pipeline>>

RegCreateKeyExW ==
    /\ pc = "RegCreateKeyExW"
    /\ \E created \in BOOLEAN :
          IF created
          THEN /\ hKey' = "open"
               /\ pc' = "WriteName"
               /\ UNCHANGED <<exitCode, hSerial, serialCloses>>
          ELSE /\ hKey' = "invalid"
               /\ hSerial' = "closed"
               /\ serialCloses' = serialCloses + 1
               /\ Return(1)
    /\ UNCHANGED <<g_running, rx, calls, keyCloses, registry, pipeline>>

\* A failed write of "Name" handled like a failed RegCreateKeyExW.
WriteNameFatal ==
    /\ pc = "WriteName"
    /\ nameWrites' = nameWrites + 1
    /\ \E res \in {"ERROR_SUCCESS", "error"} :
          IF res = "ERROR_SUCCESS"
          THEN /\ regName' = <<sensorName>>
               /\ pc' = "while"
               /\ UNCHANGED <<exitCode, handles>>
          ELSE /\ hSerial' = "closed"
               /\ serialCloses' = serialCloses + 1
               /\ hKey' = "closed"
               /\ keyCloses' = keyCloses + 1
               /\ Return(1)
               /\ UNCHANGED regName
    /\ UNCHANGED <<g_running, rx, calls, regValue, writes, valueWriteFailed,
                   pipeline>>

\* RegSetValueExW(hKey, L"Name", ...); a failure is only reported.
WriteName ==
    /\ pc = "WriteName"
    /\ nameWrites' = nameWrites + 1
    /\ \E res \in {"ERROR_SUCCESS", "error"} :
          regName' = IF res = "ERROR_SUCCESS" THEN <<sensorName>> ELSE regName
    /\ pc' = "while"
    /\ UNCHANGED <<g_running, exitCode, rx, calls, handles, regValue,
                   writes, valueWriteFailed, pipeline>>

(***************************************************************************)
(* wmain, RUNNING: the read loop                                           *)
(***************************************************************************)
\* A loop that does not look at the flag.
LoopConditionAlways(flag) == TRUE

\* while (g_running.load())
LoopCondition(flag) == flag

While ==
    /\ pc = "while"
    /\ IF LoopCondition(g_running)
       THEN /\ pc' = "ReadFile"
            /\ readIssued' = TRUE
       ELSE /\ pc' = "shutdown"
            /\ UNCHANGED readIssued
    /\ UNCHANGED <<g_running, exitCode, rx, commFailed, handles, registry,
                   pipeline>>

\* An assignment in place of the append.
AppendChunkOverwrite(buf, chunk) == chunk

\* readBuffer.append(tempBuf.data(), tempBuf.data() + bytesRead)
AppendChunk(buf, chunk) == buf \o chunk

Min(a, b) == IF a < b THEN a ELSE b

\* A read error other than the aborted operation ends the loop.
OnReadErrorBreak(err) ==
    IF err = "ERROR_OPERATION_ABORTED" THEN "Sleep(50)" ELSE "shutdown"

\* A read error other than the aborted operation opens the port anew.
OnReadErrorReconnect(err) ==
    IF err = "ERROR_OPERATION_ABORTED" THEN "Sleep(50)" ELSE "CreateFileW"

\* if (!ok) { ... Sleep(50); continue; }: where wmain goes on after a
\* failed ReadFile, whatever the error.
OnReadError(err) == "Sleep(50)"

\* ReadFile returns when the driver's timeouts expire: it fails, or it
\* succeeds with the bytes received so far, at most tempBuf.size() of them.
\* After a failure or with no byte read the loop sleeps and starts over.
ReadFile ==
    /\ pc = "ReadFile"
    /\ \/ /\ \E err \in {"ERROR_OPERATION_ABORTED", "other"} :
                pc' = OnReadError(err)
          /\ UNCHANGED <<rx, pipeline>>
       \/ LET bytesRead == Min(Len(rx), TempBufSize)
              chunk == SubSeq(rx, 1, bytesRead)
          IN  IF bytesRead = 0
              THEN /\ pc' = "Sleep(10)"
                   /\ UNCHANGED <<rx, pipeline>>
              ELSE /\ readBuffer' = AppendChunk(readBuffer, chunk)
                   /\ rx' = SubSeq(rx, bytesRead + 1, Len(rx))
                   /\ stream' = stream \o chunk
                   /\ carried' = (readBuffer # << >>)
                   /\ pc' = "find"
                   /\ UNCHANGED <<lastValueWritten, outcomes, lineSplit,
                                  ignoredLog>>
    /\ UNCHANGED <<g_running, exitCode, calls, handles, registry>>

\* A pause that also throws the unfinished line away.
SleepDiscarding ==
    /\ pc \in {"Sleep(50)", "Sleep(10)"}
    /\ pc' = "while"
    /\ readBuffer' = << >>
    /\ UNCHANGED <<g_running, exitCode, rx, calls, handles, registry,
                   lastValueWritten, stream, carried, outcomes, lineSplit,
                   ignoredLog>>

\* Sleep(50); continue;  and  Sleep(10); continue;
Sleep ==
    /\ pc \in {"Sleep(50)", "Sleep(10)"}
    /\ pc' = "while"
    /\ UNCHANGED <<g_running, exitCode, rx, calls, handles, registry,
                   pipeline>>

\* readBuffer.find('\n')
find(buf) ==
    IF \E k \in 1..Len(buf) : buf[k] = Ch.nl
    THEN (CHOOSE k \in 1..Len(buf) :
             buf[k] = Ch.nl /\ \A j \in 1..(k - 1) : buf[j] # Ch.nl) - 1
    ELSE npos

\* The line without its terminator: substr(0, pos).
TakeLineNoTerminator(buf, pos) == Substr(buf, 0, pos)

\* readBuffer.substr(0, pos + 1)
TakeLine(buf, pos) == Substr(buf, 0, pos + 1)

\* readBuffer.erase(0, pos + 1)
EraseLine(buf, pos) == Substr(buf, pos + 1, Len(buf) - (pos + 1))

\* No test for an empty line.
IsBlankNever(trimmed) == FALSE

\* if (trimmed.empty()) continue;
IsBlank(trimmed) == trimmed = << >>

\* A validation that does not look at what follows the number.
IsNumericPrefix(trimmed) == stod(trimmed).err = "none"

\* The value of "valid" after the try block.
IsNumeric(trimmed) ==
    LET parsed == stod(trimmed)
    IN  /\ parsed.err = "none"
        /\ Scan(SpaceSet, trimmed, parsed.idx) = Len(trimmed)

\* No change detection, and the comparison turned around.
IsChangeAlways(trimmed, last) == TRUE

IsChangeInverted(trimmed, last) == trimmed = last

\* if (trimmed != lastValueWritten)
IsChange(trimmed, last) == trimmed # last

\* The last-written value advanced only by a write that succeeded.
LastAfterWriteOnSuccess(trimmed, last, wres) ==
    IF wres = "ERROR_SUCCESS" THEN trimmed ELSE last

\* lastValueWritten = trimmed; stands before the RegSetValueExW call, so the
\* value it leaves does not depend on the result wres of that call.
LastAfterWrite(trimmed, last, wres) == trimmed

\* What the body of the inner loop does with one line: which branch it
\* takes, and the text it passes on.
Classify(line, last) ==
    LET trimmed == trim_ascii(line)
    IN  [ line |-> line,
          trimmed |-> trimmed,
          result |-> IF IsBlank(trimmed) THEN "skipped"
                     ELSE IF ~IsNumeric(trimmed) THEN "ignored"
                     ELSE IF ~IsChange(trimmed, last) THEN "suppressed"
                     ELSE "written" ]

\* A comparison with the text of the line before, reading or not.
ComparedWithPreviousLine(last, done) ==
    IF done = << >> THEN << >> ELSE done[Len(done)].trimmed

\* trimmed != lastValueWritten: the text a reading is compared with, given
\* the last-written value and the lines processed before.
ComparedWith(last, done) == last

\* An if in place of the inner while: one line for each chunk.
InnerLoopOnce == "while"

\* The end of the inner loop's body, and its continue statements: back to
\* the find of the loop condition.
InnerLoopBack == "find"

\* One pass of the inner loop that finds a newline: the line is taken out
\* of readBuffer, trimmed, validated, compared and, if it changed, written.
DrainLine ==
    /\ pc = "find"
    /\ find(readBuffer) # npos
    /\ LET pos == find(readBuffer)
           line == TakeLine(readBuffer, pos)
           o == Classify(line, ComparedWith(lastValueWritten, outcomes))
       IN  /\ readBuffer' = EraseLine(readBuffer, pos)
           /\ outcomes' = Append(outcomes, o)
           /\ lineSplit' = carried
           /\ carried' = FALSE
           /\ ignoredLog' = IF o.result = "ignored"
                            THEN Append(ignoredLog, o.trimmed) ELSE ignoredLog
           /\ IF o.result = "written"
              THEN LET wvalue == utf8_to_wstring(o.trimmed)
                   IN  /\ writes' = Append(writes, wvalue)
                       /\ \E wres \in {"ERROR_SUCCESS", "error"} :
                             /\ lastValueWritten' =
                                    LastAfterWrite(o.trimmed, lastValueWritten,
                                                   wres)
                             /\ IF wres = "ERROR_SUCCESS"
                                THEN /\ regValue' = <<wvalue>>
                                     /\ UNCHANGED valueWriteFailed
                                ELSE /\ valueWriteFailed' = TRUE
                                     /\ UNCHANGED regValue
              ELSE UNCHANGED <<lastValueWritten, writes, regValue,
                               valueWriteFailed>>
    /\ pc' = InnerLoopBack
    /\ UNCHANGED <<g_running, exitCode, rx, stream, calls, handles,
                   regName, nameWrites>>

\* An inner loop that also ends when the run flag is cleared.
DrainDoneOnFlag ==
    /\ pc = "find"
    /\ find(readBuffer) = npos \/ ~g_running
    /\ pc' = "while"
    /\ carried' = FALSE
    /\ lineSplit' = FALSE
    /\ UNCHANGED <<g_running, exitCode, rx, calls, handles, registry,
                   readBuffer, lastValueWritten, stream, outcomes,
                   ignoredLog>>

\* The inner loop finds no newline: back to the loop condition.
DrainDone ==
    /\ pc = "find"
    /\ find(readBuffer) = npos
    /\ pc' = "while"
    /\ carried' = FALSE
    /\ lineSplit' = FALSE
    /\ UNCHANGED <<g_running, exitCode, rx, calls, handles, registry,
                   readBuffer, lastValueWritten, stream, outcomes,
                   ignoredLog>>

(***************************************************************************)
(* wmain, STOPPING: after the loop                                         *)
(***************************************************************************)
\* if (hKey) RegCloseKey(hKey);
\* if (hSerial && hSerial != INVALID_HANDLE_VALUE) CloseHandle(hSerial);
\* A handle that is neither NULL nor INVALID_HANDLE_VALUE is closed, whether
\* or not it was closed before.
Shutdown ==
    /\ pc = "shutdown"
    /\ IF hKey \notin {"none", "invalid"}
       THEN hKey' = "closed" /\ keyCloses' = keyCloses + 1
       ELSE UNCHANGED <<hKey, keyCloses>>
    /\ IF hSerial \notin {"none", "invalid"}
       THEN hSerial' = "closed" /\ serialCloses' = serialCloses + 1
       ELSE UNCHANGED <<hSerial, serialCloses>>
    /\ Return(0)
    /\ UNCHANGED <<g_running, rx, calls, registry, pipeline>>

(***************************************************************************)
(* The program: wmain's steps, the console handler, the device.            *)
(***************************************************************************)
Starting ==
    \/ SetConsoleCtrlHandler
    \/ CreateFileW
    \/ GetCommState
    \/ SetCommState
    \/ SetCommTimeouts
    \/ RegCreateKeyExW
    \/ WriteName

Looping ==
    \/ While
    \/ ReadFile
    \/ Sleep
    \/ DrainDone
    \/ Shutdown

Next == Starting \/ Looping \/ DrainLine \/ ConsoleHandler \/ DeviceSends(Profiles)

Spec == Init /\ [][Next]_vars

\* The same program with a device that sends many short readings.
NextReadings ==
    Starting \/ Looping \/ DrainLine \/ ConsoleHandler
        \/ DeviceSends(ReadingProfiles)

SpecReadings == Init /\ [][NextReadings]_vars

\* The same program with a device that sends readings and other lines.
NextNoise ==
    Starting \/ Looping \/ DrainLine \/ ConsoleHandler
        \/ DeviceSends(NoiseProfiles)

SpecNoise == Init /\ [][NextNoise]_vars

\* The same program with a device that sends little.  wmain always takes
\* its next step, and every ReadFile returns (the timeouts bound it where
\* SetCommTimeouts has set them; where that call failed it is supposed): weak
\* fairness of each step of wmain.  That of DrainLine is written out, with
\* the condition under which DrainLine can be taken in place of ENABLED.
NextLive ==
    Starting \/ Looping \/ DrainLine \/ ConsoleHandler
        \/ DeviceSends(LiveProfiles)

DrainLineEnabled == pc = "find" /\ find(readBuffer) # npos

LiveSpec ==
    /\ Init
    /\ [][NextLive]_vars
    /\ WF_vars(Starting)
    /\ WF_vars(Looping)
    /\ <>[]DrainLineEnabled => []<><<DrainLine>>_vars

(***************************************************************************)
(* Definitions the properties below are stated with.                       *)
(***************************************************************************)
Last(seq) == seq[Len(seq)]

RECURSIVE Segments(_, _, _)
\* s cut after each newline, read byte by byte: the newline-terminated
\* segments and the unterminated rest.
Segments(s, cur, acc) ==
    IF s = << >> THEN [lines |-> acc, rest |-> cur]
    ELSE IF Head(s) = Ch.nl
         THEN Segments(Tail(s), << >>, Append(acc, Append(cur, Ch.nl)))
         ELSE Segments(Tail(s), Append(cur, Head(s)), acc)

SplitLines(s) == Segments(s, << >>, << >>)

RECURSIVE Flatten(_)
Flatten(seqs) == IF seqs = << >> THEN << >> ELSE Head(seqs) \o Flatten(Tail(seqs))

\* The lines taken out of readBuffer so far, in order.
LinesOut == [k \in 1..Len(outcomes) |-> outcomes[k].line]

IsReading(o) == o.result \in {"suppressed", "written"}

\* The canonical texts of the valid lines processed so far, in order.
Readings ==
    LET valid == SelectSeq(outcomes, IsReading)
    IN  [k \in 1..Len(valid) |-> valid[k].trimmed]

RECURSIVE Collapse(_)
\* Every run of equal neighbours reduced to its first element.
Collapse(seq) ==
    IF Len(seq) <= 1 THEN seq
    ELSE IF seq[1] = seq[2] THEN Collapse(Tail(seq))
    ELSE <<seq[1]>> \o Collapse(Tail(seq))

Running == pc \in {"while", "ReadFile", "Sleep(50)", "Sleep(10)", "find"}

\* A line was taken out of readBuffer and processed in this step.
LineProcessed == Len(outcomes') = Len(outcomes) + 1

T1 == <<Ch.d1>>

T11 == <<Ch.d1, Ch.d1>>

\* C1: the lines taken out of the line buffer, in order, are the
\* newline-terminated segments of the concatenation of all chunks read; the
\* unterminated rest stays in the buffer and is never emitted; between two
\* reads no complete line is left in it; no byte is lost or duplicated.
C1_LinesAreSegments ==
    LET all == SplitLines(stream)
        left == SplitLines(readBuffer)
    IN  /\ LinesOut \o left.lines = all.lines
        /\ left.rest = all.rest
        /\ pc # "find" => left.lines = << >>
        /\ Flatten(LinesOut) \o readBuffer = stream

C1_Witness ==
    /\ pc = "while"
    /\ Len(outcomes) >= 2
    /\ readBuffer # << >>
    /\ Len(stream) > Len(readBuffer) + 2

\* C2: the texts of the "Value" write attempts are the canonical texts of
\* the valid readings in line order with every run of consecutive equal
\* texts collapsed to one; so the first valid reading is always written.
C2_WritesAreCollapsedReadings ==
    LET expect == Collapse(Readings)
    IN  writes = [k \in 1..Len(expect) |-> utf8_to_wstring(expect[k])]

C2_Witness ==
    /\ Readings = <<T1, T1, T11, T1>>
    /\ writes = <<T1, T11, T1>>

\* C3: between two iterations of the read loop, once a valid reading has been
\* processed and no "Value" write has failed, the registry value "Value" is
\* the canonical text of the latest valid complete line received.
C3_SinkMirrorsLatestReading ==
    (pc = "while" /\ Readings # << >> /\ ~valueWriteFailed)
        => regValue = <<utf8_to_wstring(Last(Readings))>>

C3_Witness ==
    /\ pc = "while"
    /\ ~valueWriteFailed
    /\ Len(Readings) >= 3
    /\ Len(writes) >= 2
    /\ Last(Readings) # Readings[1]
    /\ regValue = <<Last(Readings)>>

RECURSIVE DrainWrites(_, _, _)
\* The "Value" writes the inner loop makes on buffer buf with last-written
\* value last, after the writes acc.
DrainWrites(buf, last, acc) ==
    LET pos == find(buf)
    IN  IF pos = npos THEN acc
        ELSE LET o == Classify(TakeLine(buf, pos), last)
             IN  IF o.result = "written"
                 THEN DrainWrites(EraseLine(buf, pos), o.trimmed,
                                  Append(acc, utf8_to_wstring(o.trimmed)))
                 ELSE DrainWrites(EraseLine(buf, pos), last, acc)

\* The writes of a run that receives all of s in a single chunk.
SingleChunkWrites(s) == DrainWrites(s, << >>, << >>)

T1dot1 == <<Ch.d1, Ch.dot, Ch.d1>>

\* C4: the "Value" writes depend on the bytes received only, not on how the
\* reads cut them into chunks: at every point they are, with the writes the
\* buffered lines still cause, the writes of a run that gets the same bytes
\* in one chunk.
C4_WritesIndependentOfChunking ==
    DrainWrites(readBuffer, lastValueWritten, writes) = SingleChunkWrites(stream)

C4_Witness ==
    /\ pc = "find"
    /\ lineSplit
    /\ outcomes # << >>
    /\ Last(outcomes).trimmed = T1dot1
    /\ writes = <<T1dot1>>

\* The text has a numeric prefix that stod parses and something after it.
HasTrailingContent(text) ==
    /\ stod(text).err = "none"
    /\ stod(text).idx < Len(text)

T1sp1 == <<Ch.d1, Ch.sp, Ch.d1>>

\* C5: a line whose trimmed text goes on after the numeric prefix stod parses
\* is reported as non-numeric and dropped: nothing is written, the
\* last-written value stays, and the inner loop goes on to the next line.
C5_TrailingContentRejected ==
    [][ (LineProcessed /\ HasTrailingContent(Last(outcomes').trimmed))
          => /\ Last(outcomes').result = "ignored"
             /\ ignoredLog' = Append(ignoredLog, Last(outcomes').trimmed)
             /\ UNCHANGED <<lastValueWritten, writes, regValue>>
             /\ pc' = "find" ]_vars

C5_Witness ==
    /\ outcomes # << >>
    /\ Last(outcomes).trimmed = T1sp1
    /\ Last(outcomes).result = "ignored"
    /\ Last(ignoredLog) = T1sp1

IsDigits(text) == \A k \in 1..Len(text) : IsDigit(text[k])

\* digits, or digits with a fraction point, at least one digit in all
IsDecimalMantissa(text) ==
    \E k \in 0..Len(text) :
        LET whole == SubSeq(text, 1, k)
            rest == SubSeq(text, k + 1, Len(text))
        IN  /\ IsDigits(whole)
            /\ \/ rest = << >> /\ whole # << >>
               \/ /\ rest # << >>
                  /\ Head(rest) = Ch.dot
                  /\ IsDigits(Tail(rest))
                  /\ Len(whole) + Len(rest) > 1

\* nothing, or e / E, an optional sign and digits
IsDecimalExponent(text) ==
    \/ text = << >>
    \/ /\ Len(text) >= 2
       /\ ToLower(Head(text)) = Ch.e
       /\ LET body == IF text[2] \in {Ch.plus, Ch.minus}
                      THEN SubSeq(text, 3, Len(text))
                      ELSE Tail(text)
          IN  body # << >> /\ IsDigits(body)

\* An optional sign, a decimal mantissa, an optional decimal exponent.
IsDecimalLiteral(text) ==
    LET body == IF text # << >> /\ Head(text) \in {Ch.plus, Ch.minus}
                THEN Tail(text) ELSE text
    IN  \E k \in 1..Len(body) :
            /\ IsDecimalMantissa(SubSeq(body, 1, k))
            /\ IsDecimalExponent(SubSeq(body, k + 1, Len(body)))

\* C6: every text written as "Value" is, in full, a decimal floating-point
\* literal (optional sign, digits with an optional fraction, optional
\* decimal exponent).
C6_OnlyDecimalLiteralsWritten ==
    \A k \in 1..Len(writes) : IsDecimalLiteral(writes[k])

\* text is line without its leading and trailing white space.
IsStripOf(text, line) ==
    /\ text # << >>
    /\ ~isspace(Head(text))
    /\ ~isspace(Last(text))
    /\ \E lead \in 0..Len(line) :
          /\ lead + Len(text) <= Len(line)
          /\ SubSeq(line, lead + 1, lead + Len(text)) = text
          /\ \A k \in 1..Len(line) :
                (k <= lead \/ k > lead + Len(text)) => isspace(line[k])

IsWritten(o) == o.result = "written"

\* The lines that were written, in order.
WrittenLines ==
    LET written == SelectSeq(outcomes, IsWritten)
    IN  [k \in 1..Len(written) |-> written[k].line]

T1dot == <<Ch.d1, Ch.dot>>

\* C7: the text of each "Value" write is the characters of its line with
\* the terminator and the leading and trailing white space removed, nothing
\* else changed; the number is not formatted anew.
C7_WrittenTextIsTrimmedLine ==
    /\ Len(writes) = Len(WrittenLines)
    /\ \A k \in 1..Len(writes) : IsStripOf(writes[k], WrittenLines[k])

C7_Witness ==
    /\ Len(writes) = 2
    /\ {writes[1], writes[2]} = {T1, T1dot}

IsAllSpace(text) == \A k \in 1..Len(text) : isspace(text[k])

\* C8: a line of white space only gives no reading, no write and no report,
\* and the inner loop goes on with the lines after it.
C8_BlankLineSkipped ==
    [][ (LineProcessed /\ IsAllSpace(Last(outcomes').line))
          => /\ Last(outcomes').result = "skipped"
             /\ UNCHANGED <<lastValueWritten, writes, regValue, ignoredLog,
                            valueWriteFailed>>
             /\ pc' = "find" ]_vars

C8_Witness ==
    /\ pc = "find"
    /\ outcomes # << >>
    /\ Last(outcomes).result = "skipped"
    /\ Len(Last(outcomes).line) > 1
    /\ find(readBuffer) # npos

Stopped ==
    /\ pc = "done"
    /\ exitCode = <<0>>
    /\ hKey = "closed"
    /\ keyCloses = 1
    /\ hSerial = "closed"
    /\ serialCloses = 1

\* C9: once the run flag is cleared while the read loop runs, and every
\* ReadFile returns, the loop starts no ReadFile any more (one in flight
\* completes) and wmain ends with the registry key and the port each closed
\* exactly once.
C9_StopAfterFlagCleared ==
    /\ [][ ~g_running => ~(pc = "while" /\ pc' = "ReadFile") ]_vars
    /\ (Running /\ ~g_running) ~> Stopped
    /\ [][ (keyCloses' <= 1 /\ serialCloses' <= 1) ]_vars

C9_Witness ==
    /\ Stopped
    /\ ~g_running
    /\ readIssued
    /\ outcomes # << >>

\* C10: when the port cannot be opened or the registry key cannot be
\* created, wmain has returned a non-zero status, no ReadFile was issued and
\* neither "Name" nor "Value" was written.
C10_StartupFailureIsFatal ==
    (hSerial = "invalid" \/ hKey = "invalid")
        => /\ pc = "done"
           /\ exitCode # << >>
           /\ exitCode[1] # 0
           /\ ~readIssued
           /\ nameWrites = 0
           /\ writes = << >>
           /\ regName = << >>
           /\ regValue = << >>

C10_Witness ==
    /\ pc = "done"
    /\ hKey = "invalid"
    /\ hSerial = "closed"
    /\ exitCode = <<1>>

\* wmain has returned with a status other than 0.
ExitedNonZero ==
    /\ pc = "done"
    /\ exitCode # << >>
    /\ exitCode[1] # 0

\* C11: when a call that configures the port has failed (GetCommState,
\* SetCommState or SetCommTimeouts), wmain has closed the port and returned
\* a non-zero status, and no ReadFile was issued.
C11_ConfigFailureIsFatal ==
    commFailed # "none"
        => /\ ExitedNonZero
           /\ hSerial = "closed"
           /\ serialCloses = 1
           /\ ~readIssued

\* What became of a handle at the end: one that was acquired has been closed
\* by exactly one call, one that was not has not been closed at all.
ReleasedOnce(h, closes) ==
    \/ h = "closed" /\ closes = 1
    \/ h \in {"none", "invalid"} /\ closes = 0

\* C12: when wmain has returned, by the clean shutdown or by a fatal exit of
\* the start-up, the port and the registry key it had acquired are each
\* closed by exactly one call; no handle is closed twice at any time; a
\* ReadFile is issued on the open port only, and the registry values are
\* written on the open key only.
C12_HandlesReleasedOnce ==
    /\ serialCloses <= 1
    /\ keyCloses <= 1
    /\ pc = "done" => /\ ReleasedOnce(hSerial, serialCloses)
                      /\ ReleasedOnce(hKey, keyCloses)
    /\ pc = "ReadFile" => hSerial = "open"
    /\ pc \in {"WriteName", "find"} => hKey = "open"

C12_Witness ==
    /\ pc = "done"
    /\ exitCode = <<1>>
    /\ commFailed = "SetCommState"
    /\ hSerial = "closed"
    /\ serialCloses = 1
    /\ hKey = "none"

\* The start-up is over: wmain has come to the read loop.
EnteredRunning == nameWrites = 1

\* C13: once wmain has entered the read loop, it leaves the loop only from
\* the loop condition with the run flag cleared, and it then returns 0:
\* neither a failed ReadFile, nor a failed "Value" or "Name" write, nor an
\* ignored line ends the loop or gives another exit status.
C13_OnlyFlagEndsLoop ==
    [][ /\ (Running /\ ~Running')
            => (~g_running /\ pc = "while" /\ pc' = "shutdown")
        /\ (EnteredRunning /\ pc # "done" /\ pc' = "done")
            => (~g_running /\ pc = "shutdown" /\ exitCode' = <<0>>) ]_vars

C13_Witness ==
    /\ pc = "Sleep(50)"
    /\ g_running
    /\ regName = << >>
    /\ valueWriteFailed
    /\ ignoredLog # << >>

\* A "Value" write was attempted in this step and the registry does not hold
\* its text afterwards: the write failed.
WriteFailedVisibly ==
    /\ writes' # writes
    /\ regValue' # <<Last(writes')>>

\* C14: the last-written value is the text of the latest "Value" write
\* attempt, failed or not.  A write that fails leaves the registry as it was
\* and still advances the last-written value; a valid reading whose text is
\* that of the latest attempt causes no attempt; so two attempts in a row
\* never carry the same text, and a text whose write failed is attempted
\* again only after another text was attempted.
C14_FailedWriteNotRetried ==
    /\ [](writes # << >> => utf8_to_wstring(lastValueWritten) = Last(writes))
    /\ [][ /\ WriteFailedVisibly
               => /\ regValue' = regValue
                  /\ valueWriteFailed'
                  /\ lastValueWritten' = Last(outcomes').trimmed
           /\ ( /\ LineProcessed
                /\ IsReading(Last(outcomes'))
                /\ writes # << >>
                /\ utf8_to_wstring(Last(outcomes').trimmed) = Last(writes) )
               => UNCHANGED <<writes, regValue, lastValueWritten>>
           /\ (writes' # writes /\ writes # << >>)
               => Last(writes') # Last(writes) ]_vars

\* The write of 11 failed (the registry still holds 1) and the 11 that came
\* next was not written.
C14_Witness ==
    /\ writes = <<T1, T11>>
    /\ regValue = <<T1>>
    /\ valueWriteFailed
    /\ lastValueWritten = T11
    /\ Len(outcomes) = 3
    /\ Last(outcomes).trimmed = T11
    /\ Last(outcomes).result = "suppressed"

Sleeping == pc \in {"Sleep(50)", "Sleep(10)"}

\* A ReadFile that failed or returned no byte, and the pause after it.
IdleIteration ==
    \/ pc = "ReadFile" /\ Sleeping'
    \/ Sleeping

\* C15: an iteration whose ReadFile fails or returns no byte goes back to
\* the loop condition and changes neither readBuffer, lastValueWritten nor
\* the registry, and attempts no write; so between two drains readBuffer is
\* the unterminated tail of all bytes read, however many such iterations
\* went by, and the next chunk is appended to it.
C15_IdleReadIsNoOp ==
    /\ [][ IdleIteration
             => /\ UNCHANGED <<readBuffer, lastValueWritten, regValue,
                               regName, writes, valueWriteFailed, stream,
                               outcomes, ignoredLog, handles>>
                /\ Sleeping' \/ pc' = "while" ]_vars
    /\ [](pc # "find" => readBuffer = SplitLines(stream).rest)

C15_Witness ==
    /\ pc = "Sleep(10)"
    /\ readBuffer # << >>
    /\ outcomes # << >>
    /\ writes # << >>
    /\ g_running

RECURSIVE Count(_, _)
\* How many times byte b occurs in s.
Count(s, b) ==
    IF s = << >> THEN 0
    ELSE (IF Head(s) = b THEN 1 ELSE 0) + Count(Tail(s), b)

ResultsSoFar == {outcomes[k].result : k \in 1..Len(outcomes)}

\* C16: when wmain is about to call ReadFile, and when it has left the read
\* loop, readBuffer holds no newline, and as many lines were taken out and
\* processed as newlines were read, whatever became of each line.
C16_NoLineLeftAtRead ==
    pc \in {"ReadFile", "shutdown"}
        => /\ find(readBuffer) = npos
           /\ Len(outcomes) = Count(stream, Ch.nl)

C16_Witness ==
    /\ pc = "ReadFile"
    /\ {"ignored", "suppressed", "written"} \subseteq ResultsSoFar
    /\ valueWriteFailed
    /\ stream # << >>

\* C17: "Name" is written by one call, made with the registry key open,
\* before any ReadFile and any "Value" write; whether it succeeds or fails,
\* wmain goes on to the read loop; it is not written again.  So a run that
\* has come to the read loop has made exactly one "Name" write.
C17_NameWrittenOnce ==
    /\ [](nameWrites <= 1)
    /\ []((Running \/ pc = "shutdown" \/ readIssued \/ writes # << >>)
             => nameWrites = 1)
    /\ [](regName \in {<< >>, <<sensorName>>})
    /\ [][ nameWrites' # nameWrites
             => /\ hKey = "open"
                /\ ~readIssued
                /\ writes = << >>
                /\ pc' = "while"
                /\ UNCHANGED <<exitCode, handles>> ]_vars

\* The write of "Name" failed; wmain has read and written a "Value" since.
C17_Witness ==
    /\ nameWrites = 1
    /\ regName = << >>
    /\ readIssued
    /\ regValue # << >>
    /\ Running

\* The state of the driver: 0 STARTING, 1 RUNNING, 2 STOPPING, 3 ended
\* (STOPPED with status 0, or the fatal end of the start-up).
Phase ==
    IF pc = "done" THEN 3
    ELSE IF pc = "shutdown" THEN 2
    ELSE IF Running THEN 1
    ELSE 0

\* C18: the driver goes from STARTING to RUNNING, from RUNNING to STOPPING
\* and from STOPPING to the end with status 0, or from STARTING to the end
\* with another status, and makes no other change of state; the port handle
\* and the key handle, once set, are only ever closed, never set anew.
C18_StateMovesForward ==
    [][ /\ Phase' # Phase
            => \/ Phase = 0 /\ Phase' = 1
               \/ Phase = 1 /\ Phase' = 2
               \/ Phase = 2 /\ Phase' = 3 /\ exitCode' = <<0>>
               \/ Phase = 0 /\ Phase' = 3 /\ exitCode' # <<0>>
        /\ hSerial # "none" => hSerial' \in {hSerial, "closed"}
        /\ hKey # "none" => hKey' \in {hKey, "closed"} ]_vars

\* STOPPING is reached after a failed "Value" write, with the handles the
\* start-up opened.
C18_Witness ==
    /\ pc = "shutdown"
    /\ valueWriteFailed
    /\ Len(outcomes) >= 2
    /\ hSerial = "open"
    /\ hKey = "open"

\* C19: the run flag only ever goes from true to false.  wmain looks at it
\* at the loop condition only: from there it goes to ReadFile when the flag
\* is set and to the shutdown when it is cleared, and no other step of an
\* iteration leaves the loop, whenever the handler ran.  So when the loop has
\* ended, every complete line read was taken out and processed, and the
\* writes are those all the bytes read call for, in order.  A run that ends
\* after the start-up, also one that never issued a ReadFile, has closed both
\* handles once and returned 0.
C19_FlagPolledBetweenIterations ==
    /\ [][ /\ g_running' => g_running
           /\ (pc = "while" /\ pc' # pc)
               => pc' = IF g_running THEN "ReadFile" ELSE "shutdown"
           /\ (Running /\ pc # "while") => Running' ]_vars
    /\ []((EnteredRunning /\ pc \in {"shutdown", "done"})
             => /\ LinesOut = SplitLines(stream).lines
                /\ writes = SingleChunkWrites(stream))
    /\ []((EnteredRunning /\ pc = "done") => Stopped)

\* The handler has cleared the flag and a complete line of the chunk read
\* is still in the buffer, after others were processed.
C19_Witness ==
    /\ pc = "find"
    /\ ~g_running
    /\ outcomes # << >>
    /\ find(readBuffer) # npos

\* The valid readings among the first n lines processed.
ReadingsBefore(n) == SelectSeq(SubSeq(outcomes, 1, n), IsReading)

TMinus == <<Ch.minus>>

\* C20: a line that is skipped or ignored changes neither the last-written
\* value nor the registry and causes no write, so a valid reading is
\* suppressed exactly when its text is that of the valid reading before it,
\* whatever lines came in between.
C20_NoiseKeepsLastValue ==
    /\ [][ (LineProcessed /\ ~IsReading(Last(outcomes')))
             => UNCHANGED <<lastValueWritten, writes, regValue,
                            valueWriteFailed>> ]_vars
    /\ [](\A k \in 1..Len(outcomes) :
             IsReading(outcomes[k])
                 => LET before == ReadingsBefore(k - 1)
                    IN  outcomes[k].result = "suppressed"
                            <=> /\ before # << >>
                                /\ Last(before).trimmed = outcomes[k].trimmed)

\* The lines 1, -, 1: one write of 1.
C20_Witness ==
    /\ Len(outcomes) = 3
    /\ outcomes[1].trimmed = T1
    /\ outcomes[2].trimmed = TMinus
    /\ outcomes[2].result = "ignored"
    /\ outcomes[3].trimmed = T1
    /\ outcomes[3].result = "suppressed"
    /\ writes = <<T1>>

=============================================================================
